---- MODULE Spec2Model ----
(***************************************************************************)
(* A model of src/charm.py, the charm that provisions slapd and            *)
(* phpldapadmin in one container.  Text is modelled as sequences of        *)
(* one-character strings, so that splitting, joining and replacement are   *)
(* computed character by character as Python computes them.                *)
(***************************************************************************)
EXTENDS Integers, Sequences, FiniteSets, TLC

VARIABLES
    config,            \* self.config: [domain, users]
    pc,                \* position of the container-ready handler in Program, 0 when idle
    events,            \* container-ready events delivered so far
    ops,               \* operations issued in the current event, each with its outcome
    err,               \* the error that aborted the current event, or NoErr
    status,            \* self.unit.status
    domain,            \* configure_slap_pkg's local `domain`
    current_contents,  \* setup_php's local `current_contents`
    debconf,           \* container: lines received on debconf-set-selections' stdin
    php,               \* container: /etc/phpldapadmin/config.php
    ldif,              \* container: /tmp/setup.ldif
    pushes,            \* log of the (configuration, content) pushed to /tmp/setup.ldif
    resolved,          \* <<r>> once name resolution answered r for the last action
    results,           \* the result fields of the last get-ldap-url action
    ret                \* <<v>> once the function under evaluation returned v

vars == <<config, pc, events, ops, err, status, domain, current_contents,
          debconf, php, ldif, pushes, resolved, results, ret>>

(***************************************************************************)
(* Bounds of the model.                                                    *)
(***************************************************************************)
MaxEvents == 2
MaxDomainLen == 4
MaxUsersLen == 4
MaxChunks == 3
MaxRuns == 2

\* a local not yet assigned, a file not yet written, a function not yet evaluated
None == <<>>
NoErr == [op |-> "none", kind |-> "none"]

(***************************************************************************)
(* Python string operations.                                               *)
(***************************************************************************)
\* s[i:]
Drop(s, i) == SubSeq(s, i + 1, Len(s))

\* s.startswith(p)
StartsWith(s, p) == Len(s) >= Len(p) /\ SubSeq(s, 1, Len(p)) = p

\* s.find(old) + 1: the place of the first occurrence of old in s, 0 when there is none
Find(s, old) ==
    LET at == {i \in 1..(Len(s) - Len(old) + 1) : SubSeq(s, i, i + Len(old) - 1) = old}
    IN  IF at = {} THEN 0 ELSE CHOOSE i \in at : \A j \in at : i <= j

\* s.split(sep): always count(sep) + 1 pieces, empty ones kept
RECURSIVE Split(_, _)
Split(s, sep) ==
    LET i == Find(s, <<sep>>)
    IN  IF i = 0 THEN <<s>>
        ELSE <<SubSeq(s, 1, i - 1)>> \o Split(Drop(s, i), sep)

\* sep.join(parts)
RECURSIVE Join(_, _)
Join(parts, sep) ==
    IF parts = <<>> THEN <<>>
    ELSE IF Len(parts) = 1 THEN parts[1]
    ELSE parts[1] \o sep \o Join(Tail(parts), sep)

\* s.replace(old, new): the non-overlapping occurrences of old, found left to right
RECURSIVE StrReplace(_, _, _)
StrReplace(s, old, new) ==
    LET i == Find(s, old)
    IN  IF i = 0 THEN s
        ELSE SubSeq(s, 1, i - 1) \o new \o StrReplace(Drop(s, i - 1 + Len(old)), old, new)

Upper == <<"A","B","C","D","E","F","G","H","I","J","K","L","M",
           "N","O","P","Q","R","S","T","U","V","W","X","Y","Z">>
Lower == <<"a","b","c","d","e","f","g","h","i","j","k","l","m",
           "n","o","p","q","r","s","t","u","v","w","x","y","z">>

LowerChar(c) ==
    IF \E i \in 1..Len(Upper) : Upper[i] = c
    THEN Lower[CHOOSE i \in 1..Len(Upper) : Upper[i] = c]
    ELSE c

\* s.lower()
StrLower(s) == [i \in 1..Len(s) |-> LowerChar(s[i])]

\* the characters str.split() with no argument splits on
Whitespace == {" ", "\t", "\n"}

\* s.split(): no words when s is empty or all whitespace
HasWord(s) == \E i \in 1..Len(s) : s[i] \notin Whitespace

\* s.split()[0], defined when HasWord(s): from the first character that is not
\* whitespace up to the next whitespace
FirstWord(s) ==
    LET from == CHOOSE i \in 1..Len(s) :
                    s[i] \notin Whitespace /\ \A j \in 1..(i - 1) : s[j] \in Whitespace
        stops == {i \in from..Len(s) : s[i] \in Whitespace}
        upto == IF stops = {} THEN Len(s) ELSE (CHOOSE i \in stops : \A j \in stops : i <= j) - 1
    IN  SubSeq(s, from, upto)

\* iteration over a text file: the lines, each keeping its line end
RECURSIVE FileLines(_)
FileLines(s) ==
    LET i == Find(s, <<"\n">>)
    IN  IF s = <<>> THEN <<>>
        ELSE IF i = 0 THEN <<s>>
        ELSE <<SubSeq(s, 1, i)>> \o FileLines(Drop(s, i))

\* all strings over an alphabet up to a length
Strings(alphabet, n) == UNION {[1..k -> alphabet] : k \in 0..n}


(***************************************************************************)
(* Literals of charm.py.                                                   *)
(***************************************************************************)
\* "dc=example,dc=com"
Placeholder == <<"d","c","=","e","x","a","m","p","l","e",",","d","c","=","c","o","m">>

\* "dc="
DcPrefix == <<"d","c","=">>

\* "ldap://"
UrlPrefix == <<"l","d","a","p",":","/","/">>

GidBase == 500

UidBaseLeaky == 1000 + events

UidBase == 1000

GroupNames == <<"admin", "openstack">>

\* the domain the superseded draft of the charm hard-coded: "example.com"
HardcodedDomain == <<"e","x","a","m","p","l","e",".","c","o","m">>

\* self.config["domain"]
ConfigDomain == config.domain

\* self.config["users"]
ConfigUsers == config.users

\* ",".join([f"dc={d}" for d in domain.split(".")])
DcOf(d) ==
    LET labels == Split(d, ".")
    IN  Join([i \in 1..Len(labels) |-> DcPrefix \o labels[i]], <<",">>)

\* a dc that drops the separators between the components
dcUnseparated ==
    LET labels == Split(ConfigDomain, ".")
    IN  Join([i \in 1..Len(labels) |-> DcPrefix \o labels[i]], <<>>)

dc == DcOf(ConfigDomain)

\* the five debconf lines, each written to stdin followed by "\n"
slap_settings(d) == <<
    <<"s","l","a","p","d"," ","s","l","a","p","d","/","i","n","t","e","r","n","a","l","/","a","d","m","i","n","p","w"," ","p","a","s","s","w","o","r","d"," ","c","r","a","p","p","e","r">>,
    <<"s","l","a","p","d"," ","s","l","a","p","d","/","p","a","s","s","w","o","r","d","1"," ","p","a","s","s","w","o","r","d"," ","c","r","a","p","p","e","r">>,
    <<"s","l","a","p","d"," ","s","l","a","p","d","/","p","a","s","s","w","o","r","d","2"," ","p","a","s","s","w","o","r","d"," ","c","r","a","p","p","e","r">>,
    <<"s","l","a","p","d"," ","s","l","a","p","d","/","d","o","m","a","i","n"," ","s","t","r","i","n","g"," ">> \o d,
    <<"s","l","a","p","d"," ","s","h","a","r","e","d","/","o","r","g","a","n","i","z","a","t","i","o","n"," ","s","t","r","i","n","g"," ","t","e","s","t">> >>

StdinWritten(d) == [i \in 1..Len(slap_settings(d)) |-> Append(slap_settings(d)[i], "\n")]

\* the groups loop of setup_slap_users
Groups == [i \in 1..Len(GroupNames) |-> [gidnumber |-> GidBase + (i - 1), cn |-> GroupNames[i]]]

\* the users loop of setup_slap_users, over the elements that are left
RECURSIVE UserRecords(_, _, _)
UserRecords(elems, uid_counter, user_gid) ==
    IF elems = <<>> THEN <<>>
    ELSE LET user == Head(elems)
         IN  <<[uidnumber |-> uid_counter,
                uid       |-> StrLower(StrReplace(user, <<" ">>, <<>>)),
                sn        |-> user,
                first     |-> FirstWord(user),
                gidnumber |-> user_gid]>>
             \o UserRecords(Tail(elems), uid_counter + 1, user_gid)

\* user.split()[0] raises IndexError for an element with no word in it
UsersRaise(users) ==
    LET elems == Split(users, ",")
    IN  \E i \in 1..Len(elems) : ~HasWord(elems[i])

\* the rendering context setup_slap_users builds
Context(users) ==
    [dc     |-> dc,
     groups |-> Groups,
     users  |-> UserRecords(Split(users, ","), UidBase, Groups[1].gidnumber)]

\* template.render(context): one entry per group, then one per user, under the dc
Render(context) ==
    [i \in 1..Len(context.groups) |->
        <<"group", context.groups[i].cn, context.groups[i].gidnumber, context.dc>>]
    \o
    [i \in 1..Len(context.users) |->
        <<"user", context.users[i].uid, context.users[i].uidnumber, context.users[i].sn,
          context.users[i].first, context.users[i].gidnumber, context.dc>>]

\* line.replace(old, new, 1): the first occurrence only
StrReplaceFirst(s, old, new) ==
    LET i == Find(s, old)
    IN  IF i = 0 THEN s
        ELSE SubSeq(s, 1, i - 1) \o new \o Drop(s, i - 1 + Len(old))

RewriteFirstOnly(contents, newdc) ==
    LET lines == FileLines(contents)
    IN  Join([i \in 1..Len(lines) |-> StrReplaceFirst(lines[i], Placeholder, newdc)], <<>>)

\* setup_php's loop: new_contents += line.replace("dc=example,dc=com", self.dc)
RewritePhp(contents, newdc) ==
    LET lines == FileLines(contents)
    IN  Join([i \in 1..Len(lines) |-> StrReplace(lines[i], Placeholder, newdc)], <<>>)

\* a URL of the ldaps scheme
LdapUrlSecure(ip) == <<"l","d","a","p","s",":","/","/">> \o ip

\* "ldap://{}".format(ip)
LdapUrl(ip) == UrlPrefix \o ip


(***************************************************************************)
(* The container-ready handler, one action per operation it issues.        *)
(***************************************************************************)
\* the operations each step of setup() issues, in order
StepOps(step) ==
    CASE step = "configure_slap_pkg" ->
            <<"exec_debconf", "stdin_debconf", "wait_debconf", "exec_dpkg", "wait_output_dpkg">>
      [] step = "setup_php" -> <<"pull_php", "push_php">>
      [] step = "setup_slap_users" -> <<"push_ldif", "exec_slapadd", "wait_slapadd">>
      [] step = "restart" -> <<"restart">>

\* a setup() that seeds the directory before it rewrites the web configuration
SetupOrderSwapped == <<"configure_slap_pkg", "setup_slap_users", "setup_php", "restart">>

\* setup(): the four steps in the order of its body
SetupOrder == <<"configure_slap_pkg", "setup_php", "setup_slap_users", "restart">>

SetupOps ==
    StepOps(SetupOrder[1]) \o StepOps(SetupOrder[2])
        \o StepOps(SetupOrder[3]) \o StepOps(SetupOrder[4])

\* a handler that reports Active before it provisions
ProgramStatusFirst == <<"add_layer", "replan", "set_status">> \o SetupOps

\* _on_phpldapadmin_pebble_ready: add_layer, replan, setup(), status
Program == <<"add_layer", "replan">> \o SetupOps \o <<"set_status">>

Cur == IF pc = 0 THEN "idle" ELSE Program[pc]

\* the operation returned: the handler goes on to its next statement
Ok(op) ==
    /\ ops' = Append(ops, [op |-> op, ok |-> TRUE])
    /\ pc' = IF pc = Len(Program) THEN 0 ELSE pc + 1
    /\ err' = err

\* the operation raised: nothing catches it, the handler ends
Raise(op, kind) ==
    /\ ops' = Append(ops, [op |-> op, ok |-> FALSE])
    /\ pc' = 0
    /\ err' = [op |-> op, kind |-> kind]

\* the framework delivers phpldapadmin_pebble_ready to the handler
PebbleReady ==
    /\ pc = 0
    /\ events < MaxEvents
    /\ events' = events + 1
    /\ pc' = 1
    /\ ops' = <<>>
    /\ err' = NoErr
    /\ domain' = None
    /\ current_contents' = None
    /\ UNCHANGED <<config, status, debconf, php, ldif, pushes, resolved, results, ret>>

AddLayer ==
    /\ Cur = "add_layer"
    /\ \/ Ok("add_layer")
       \/ Raise("add_layer", "APIError")
    /\ UNCHANGED <<config, events, status, domain, current_contents, debconf, php, ldif,
                   pushes, resolved, results, ret>>

Replan ==
    /\ Cur = "replan"
    /\ \/ Ok("replan")
       \/ Raise("replan", "ChangeError")
    /\ UNCHANGED <<config, events, status, domain, current_contents, debconf, php, ldif,
                   pushes, resolved, results, ret>>

\* domain = self.config["domain"]; container.exec(["debconf-set-selections"])
DebconfExec ==
    /\ Cur = "exec_debconf"
    /\ domain' = ConfigDomain
    /\ \/ Ok("exec_debconf") /\ debconf' = <<>>
       \/ Raise("exec_debconf", "APIError") /\ debconf' = debconf
    /\ UNCHANGED <<config, events, status, current_contents, php, ldif,
                   pushes, resolved, results, ret>>

\* the loop writing and flushing each line, then stdin.close()
DebconfStdin ==
    /\ Cur = "stdin_debconf"
    /\ Ok("stdin_debconf")
    /\ debconf' = StdinWritten(domain)
    /\ UNCHANGED <<config, events, status, domain, current_contents, php, ldif,
                   pushes, resolved, results, ret>>

\* process.wait(): raises when debconf-set-selections exits non-zero
DebconfWait ==
    /\ Cur = "wait_debconf"
    /\ \/ Ok("wait_debconf")
       \/ Raise("wait_debconf", "ExecError")
    /\ UNCHANGED <<config, events, status, domain, current_contents, debconf, php, ldif,
                   pushes, resolved, results, ret>>

DpkgExec ==
    /\ Cur = "exec_dpkg"
    /\ \/ Ok("exec_dpkg")
       \/ Raise("exec_dpkg", "APIError")
    /\ UNCHANGED <<config, events, status, domain, current_contents, debconf, php, ldif,
                   pushes, resolved, results, ret>>

DpkgWaitOutput ==
    /\ Cur = "wait_output_dpkg"
    /\ \/ Ok("wait_output_dpkg")
       \/ Raise("wait_output_dpkg", "ExecError")
    /\ UNCHANGED <<config, events, status, domain, current_contents, debconf, php, ldif,
                   pushes, resolved, results, ret>>

\* current_contents = container.pull("/etc/phpldapadmin/config.php")
PhpPull ==
    /\ Cur = "pull_php"
    /\ \/ Ok("pull_php") /\ current_contents' = php
       \/ Raise("pull_php", "PathError") /\ current_contents' = current_contents
    /\ UNCHANGED <<config, events, status, domain, debconf, php, ldif,
                   pushes, resolved, results, ret>>

\* the rewrite loop, then container.push("/etc/phpldapadmin/config.php", new_contents)
PhpPush ==
    /\ Cur = "push_php"
    /\ \/ Ok("push_php") /\ php' = RewritePhp(current_contents, dc)
       \/ Raise("push_php", "PathError") /\ php' = php
    /\ UNCHANGED <<config, events, status, domain, current_contents, debconf, ldif,
                   pushes, resolved, results, ret>>

\* setup_slap_users up to container.push("/tmp/setup.ldif", template.render(context)):
\* the users loop raises IndexError before anything is pushed
LdifPush ==
    /\ Cur = "push_ldif"
    /\ \/ /\ UsersRaise(ConfigUsers)
          /\ pc' = 0
          /\ err' = [op |-> "setup_slap_users", kind |-> "IndexError"]
          /\ UNCHANGED <<ops, ldif, pushes>>
       \/ /\ ~UsersRaise(ConfigUsers)
          /\ Ok("push_ldif")
          /\ ldif' = Render(Context(ConfigUsers))
          /\ pushes' = Append(pushes, [config |-> config, content |-> ldif'])
       \/ /\ ~UsersRaise(ConfigUsers)
          /\ Raise("push_ldif", "PathError")
          /\ UNCHANGED <<ldif, pushes>>
    /\ UNCHANGED <<config, events, status, domain, current_contents, debconf, php,
                   resolved, results, ret>>

SlapaddExec ==
    /\ Cur = "exec_slapadd"
    /\ \/ Ok("exec_slapadd")
       \/ Raise("exec_slapadd", "APIError")
    /\ UNCHANGED <<config, events, status, domain, current_contents, debconf, php, ldif,
                   pushes, resolved, results, ret>>

SlapaddWait ==
    /\ Cur = "wait_slapadd"
    /\ \/ Ok("wait_slapadd")
       \/ Raise("wait_slapadd", "ExecError")
    /\ UNCHANGED <<config, events, status, domain, current_contents, debconf, php, ldif,
                   pushes, resolved, results, ret>>

\* container.restart("phpldapadmin", "slapd")
Restart ==
    /\ Cur = "restart"
    /\ \/ Ok("restart")
       \/ Raise("restart", "ChangeError")
    /\ UNCHANGED <<config, events, status, domain, current_contents, debconf, php, ldif,
                   pushes, resolved, results, ret>>

\* self.unit.status = ActiveStatus()
SetStatus ==
    /\ Cur = "set_status"
    /\ Ok("set_status")
    /\ status' = "active"
    /\ UNCHANGED <<config, events, domain, current_contents, debconf, php, ldif,
                   pushes, resolved, results, ret>>


(***************************************************************************)
(* The get-ldap-url action and the operator's configuration.               *)
(***************************************************************************)
\* socket.gethostname() or socket.gethostbyname() raised
ResolveFailed == [ok |-> FALSE, ip |-> <<>>]

\* what the local hostname may resolve to: "10.1.2.3", "127.0.1.1"
Addresses == {<<"1","0",".","1",".","2",".","3">>, <<"1","2","7",".","0",".","1",".","1">>}

\* _get_ldap_url_action: the whole handler
GetLdapUrlAction ==
    /\ pc = 0
    /\ \/ \E ip \in Addresses :
            /\ resolved' = <<[ok |-> TRUE, ip |-> ip]>>
            /\ results' = {<<"url", LdapUrl(ip)>>}
       \/ /\ resolved' = <<ResolveFailed>>
          /\ results' = {}
    /\ UNCHANGED <<config, pc, events, ops, err, status, domain, current_contents,
                   debconf, php, ldif, pushes, ret>>

\* "test.com", "com"
Domains == {<<"t","e","s","t",".","c","o","m">>, <<"c","o","m">>}

\* "Alice Smith,Bob Jones", "Al,"
UserLists == {<<"A","l","i","c","e"," ","S","m","i","t","h",",","B","o","b"," ","J","o","n","e","s">>,
              <<"A","l",",">>}

Configs == [domain : Domains, users : UserLists]

\* "$base='dc=example,dc=com';\n"
InitialPhp == <<"$","b","a","s","e","=","'">> \o Placeholder \o <<"'",";","\n">>

\* the operator changes the configuration between two events
ConfigChanged ==
    /\ pc = 0
    /\ config' \in Configs \ {config}
    /\ UNCHANGED <<pc, events, ops, err, status, domain, current_contents,
                   debconf, php, ldif, pushes, resolved, results, ret>>

Fresh ==
    /\ pc = 0
    /\ events = 0
    /\ ops = <<>>
    /\ err = NoErr
    /\ status = "unknown"
    /\ domain = None
    /\ current_contents = None
    /\ debconf = <<>>
    /\ ldif = None
    /\ pushes = <<>>
    /\ resolved = None
    /\ results = {}
    /\ ret = None

Init ==
    /\ config \in Configs
    /\ php = InitialPhp
    /\ Fresh

Next ==
    \/ PebbleReady
    \/ AddLayer
    \/ Replan
    \/ DebconfExec
    \/ DebconfStdin
    \/ DebconfWait
    \/ DpkgExec
    \/ DpkgWaitOutput
    \/ PhpPull
    \/ PhpPush
    \/ LdifPush
    \/ SlapaddExec
    \/ SlapaddWait
    \/ Restart
    \/ SetStatus
    \/ GetLdapUrlAction
    \/ ConfigChanged

Spec == Init /\ [][Next]_vars

(***************************************************************************)
(* The dc property over bounded domain strings.                            *)
(***************************************************************************)
\* every string over a, b and "." up to MaxDomainLen, and "test.com"
DcDomains ==
    Strings({"a", "b", "."}, MaxDomainLen) \cup {<<"t","e","s","t",".","c","o","m">>}

InitDc ==
    /\ config \in [domain : DcDomains, users : {<<"A","l">>}]
    /\ php = InitialPhp
    /\ Fresh

\* self.dc is read
EvalDc ==
    /\ ret = None
    /\ ret' = <<dc>>
    /\ UNCHANGED <<config, pc, events, ops, err, status, domain, current_contents,
                   debconf, php, ldif, pushes, resolved, results>>

NextDc == EvalDc

SpecDc == InitDc /\ [][NextDc]_vars

(***************************************************************************)
(* The context of setup_slap_users over bounded user lists.                *)
(***************************************************************************)
\* every string over A, b, space, tab and "," up to MaxUsersLen, and the spec's example
UsersInputs ==
    Strings({"A", "b", " ", "\t", ","}, MaxUsersLen)
        \cup {<<"A","l","i","c","e"," ","S","m","i","t","h",",","B","o","b"," ","J","o","n","e","s">>}

InitUsers ==
    /\ config \in [domain : {<<"t","e","s","t",".","c","o","m">>}, users : UsersInputs]
    /\ php = InitialPhp
    /\ Fresh

\* setup_slap_users builds its context, or raises IndexError in the users loop
EvalUsers ==
    /\ ret = None
    /\ ret' = IF UsersRaise(ConfigUsers)
              THEN <<[raised |-> TRUE, context |-> None]>>
              ELSE <<[raised |-> FALSE, context |-> Context(ConfigUsers)]>>
    /\ UNCHANGED <<config, pc, events, ops, err, status, domain, current_contents,
                   debconf, php, ldif, pushes, resolved, results>>

NextUsers == EvalUsers

SpecUsers == InitUsers /\ [][NextUsers]_vars

(***************************************************************************)
(* setup_php over bounded file contents, run after run.                    *)
(***************************************************************************)
\* the placeholder, its two halves, another character and a line end
Chunks == {Placeholder,
           <<"d","c","=","e","x","a","m","p","l","e",",">>,
           <<"d","c","=","c","o","m">>,
           <<"x">>,
           <<"\n">>}

RECURSIVE Concats(_)
Concats(n) ==
    IF n = 0 THEN {<<>>}
    ELSE LET shorter == Concats(n - 1)
         IN  shorter \cup {c \o k : c \in shorter, k \in Chunks}

PhpContents == Concats(MaxChunks)

\* "test.com", "com", "example.com", "a.example.com"
PhpDomains == {<<"t","e","s","t",".","c","o","m">>,
               <<"c","o","m">>,
               <<"e","x","a","m","p","l","e",".","c","o","m">>,
               <<"a",".","e","x","a","m","p","l","e",".","c","o","m">>}

InitPhp ==
    /\ config \in [domain : PhpDomains, users : {<<"A","l">>}]
    /\ php \in PhpContents
    /\ Fresh

\* setup_php, whole: pull, rewrite, push; ret keeps what the first run left
SetupPhp ==
    /\ events < MaxRuns
    /\ events' = events + 1
    /\ current_contents' = php
    /\ php' = RewritePhp(php, dc)
    /\ ret' = IF events = 0 THEN <<php'>> ELSE ret
    /\ UNCHANGED <<config, pc, ops, err, status, domain, debconf, ldif, pushes,
                   resolved, results>>

NextPhp == SetupPhp

SpecPhp == InitPhp /\ [][NextPhp]_vars


(***************************************************************************)
(* Properties.                                                             *)
(***************************************************************************)
\* the whole handler as the source lists it: layer, replan, the four steps, status
FullOps == <<"add_layer", "replan",
             "exec_debconf", "stdin_debconf", "wait_debconf", "exec_dpkg", "wait_output_dpkg",
             "pull_php", "push_php",
             "push_ldif", "exec_slapadd", "wait_slapadd",
             "restart",
             "set_status">>

Issued(op) == \E i \in 1..Len(ops) : ops[i].op = op

Completed(op) == \E i \in 1..Len(ops) : ops[i] = [op |-> op, ok |-> TRUE]

\* C1: within one container-ready event the operations are issued in the fixed order
\* package pre-seeding, web-config rewrite, directory seeding, restart; an operation is
\* issued only after every operation before it completed, and once an operation
\* failed nothing more is issued in that event.
C1_StrictOrder ==
    /\ Len(ops) <= Len(FullOps)
    /\ \A i \in 1..Len(ops) : ops[i].op = FullOps[i]
    /\ \A i \in 1..(Len(ops) - 1) : ops[i].ok
    /\ err # NoErr => pc = 0
    /\ (err # NoErr /\ err.kind # "IndexError") => ops[Len(ops)] = [op |-> err.op, ok |-> FALSE]
    /\ (err # NoErr /\ err.kind = "IndexError") => ~Issued("push_ldif")

\* a forced failure of the bulk load: the first two steps completed, no restart issued
C1_Witness ==
    /\ err = [op |-> "wait_slapadd", kind |-> "ExecError"]
    /\ Completed("wait_output_dpkg")
    /\ Completed("push_php")
    /\ ~Issued("restart")

\* the dc string computed character by character: "dc=", then the domain with every
\* "." turned into ",dc="
RECURSIVE DottedToDc(_)
DottedToDc(d) ==
    IF d = <<>> THEN <<>>
    ELSE (IF Head(d) = "." THEN <<",">> \o DcPrefix ELSE <<Head(d)>>) \o DottedToDc(Tail(d))

\* the "dc=" components of a dc string: the places where "dc=" starts the string or
\* follows a ","
DcComponents(s) ==
    {i \in 1..(Len(s) - 2) : SubSeq(s, i, i + 2) = DcPrefix /\ (i = 1 \/ s[i - 1] = ",")}

\* C2: dc is the labels of the domain, each prefixed with "dc=", joined by "," in the
\* original order, "test.com" giving "dc=test,dc=com"; it has as many "dc=" components
\* as the domain has labels.
C2_DcOfDomain ==
    ret # <<>> =>
        LET d == config.domain
            dots == {i \in 1..Len(d) : d[i] = "."}
        IN  /\ ret[1] = DcPrefix \o DottedToDc(d)
            /\ Cardinality(DcComponents(ret[1])) = Cardinality(dots) + 1
            /\ d = <<"t","e","s","t",".","c","o","m">>
                   => ret[1] = <<"d","c","=","t","e","s","t",",","d","c","=","c","o","m">>

\* "test.com" gave "dc=test,dc=com"
C2_Witness ==
    /\ ret = <<(<<"d","c","=","t","e","s","t",",","d","c","=","c","o","m">>)>>
    /\ config.domain = <<"t","e","s","t",".","c","o","m">>

\* the elements of a comma-separated list: the stretch between two neighbouring commas
ElementAt(s, k) ==
    LET commas == {i \in 1..Len(s) : s[i] = ","}
        before == {i \in commas : Cardinality({j \in commas : j < i}) = k - 2}
        after == {i \in commas : Cardinality({j \in commas : j < i}) = k - 1}
        from == IF k = 1 THEN 1 ELSE (CHOOSE i \in before : TRUE) + 1
        upto == IF after = {} THEN Len(s) ELSE (CHOOSE i \in after : TRUE) - 1
    IN  SubSeq(s, from, upto)

\* an element with its spaces removed and its letters lowercased
LoginName(e) ==
    LET kept == SelectSeq(e, LAMBDA c : c # " ")
    IN  [i \in 1..Len(kept) |-> LowerChar(kept[i])]

\* C3: a user list of n elements gives exactly n user records in input order, the i-th
\* (from 0) with identifier 1000+i, login name the element without spaces and
\* lowercased, surname the element, group identifier 500; the groups are admin with
\* 500 and openstack with 501; user identifiers and group identifiers are distinct.
C3_UserRecords ==
    ret # <<>> =>
        LET users == config.users
            n == Cardinality({i \in 1..Len(users) : users[i] = ","}) + 1
        IN  /\ ~ret[1].raised
            /\ Len(ret[1].context.users) = n
            /\ \A i \in 1..n :
                  LET u == ret[1].context.users[i]
                  IN  /\ u.uidnumber = 1000 + (i - 1)
                      /\ u.uid = LoginName(ElementAt(users, i))
                      /\ u.sn = ElementAt(users, i)
                      /\ u.gidnumber = 500
            /\ ret[1].context.groups = <<[gidnumber |-> 500, cn |-> "admin"],
                                         [gidnumber |-> 501, cn |-> "openstack"]>>
            /\ \A i, j \in 1..n :
                  i # j => ret[1].context.users[i].uidnumber # ret[1].context.users[j].uidnumber


\* the places of a text where the placeholder stands
Occurrences(s) ==
    {i \in 1..(Len(s) - Len(Placeholder) + 1) :
        SubSeq(s, i, i + Len(Placeholder) - 1) = Placeholder}

\* the text from place i on, with new standing at every place of occ instead of the
\* placeholder and every other character kept
RECURSIVE Substituted(_, _, _, _)
Substituted(s, occ, i, new) ==
    LET later == {j \in occ : j >= i}
        j == CHOOSE k \in later : \A l \in later : k <= l
    IN  IF later = {} THEN SubSeq(s, i, Len(s))
        ELSE SubSeq(s, i, j - 1) \o new \o Substituted(s, occ, j + Len(Placeholder), new)

\* C4: what setup_php pushes is what it pulled with every occurrence of
\* "dc=example,dc=com" replaced by the configured dc string and every other character
\* unchanged, wherever the line ends of the pulled content fall.
C4_RewriteReplacesAll ==
    events > 0 =>
        LET occ == Occurrences(current_contents)
            new == DcOf(config.domain)
        IN  /\ php = Substituted(current_contents, occ, 1, new)
            /\ Len(php) = Len(current_contents)
                            + Cardinality(occ) * (Len(new) - Len(Placeholder))

\* an occurrence on each of two lines, both rewritten to "dc=test,dc=com"
C4_Witness ==
    /\ events = 1
    /\ current_contents = Placeholder \o <<"\n">> \o Placeholder
    /\ config.domain = <<"t","e","s","t",".","c","o","m">>
    /\ php = <<"d","c","=","t","e","s","t",",","d","c","=","c","o","m","\n",
               "d","c","=","t","e","s","t",",","d","c","=","c","o","m">>

\* C5: the action sets the single result field url to "ldap://" followed by the
\* resolved address; when resolution fails it sets no result at all.
C5_LdapUrlResult ==
    resolved # <<>> =>
        IF resolved[1].ok
        THEN results = {<<"url", <<"l","d","a","p",":","/","/">> \o resolved[1].ip>>}
        ELSE results = {}

\* the hostname resolved to 10.1.2.3 and the action answered
C5_Witness ==
    /\ resolved = <<[ok |-> TRUE, ip |-> <<"1","0",".","1",".","2",".","3">>]>>
    /\ results # {}

\* C6: in every provisioning run the "slapd slapd/domain string <domain>" line carries
\* the domain of the configuration current at that run, and the same domain gives the
\* dc string of the web-config rewrite and of the directory seeding of that run.
C6_DomainIsCurrent ==
    pc > 0 =>
        /\ Completed("stdin_debconf") =>
              debconf[4] = <<"s","l","a","p","d"," ","s","l","a","p","d","/","d","o","m","a","i","n"," ","s","t","r","i","n","g"," ">>
                              \o config.domain \o <<"\n">>
        /\ Completed("push_php") =>
              php = RewritePhp(current_contents, DcOf(config.domain))
        /\ Completed("push_ldif") =>
              \A i \in 1..Len(ldif) : ldif[i][Len(ldif[i])] = DcOf(config.domain)

\* a second run under a domain other than the one an earlier run seeded
C6_Witness ==
    /\ pc > 0
    /\ Completed("push_ldif")
    /\ Len(pushes) = 2
    /\ pushes[1].config.domain # config.domain

ContainerErrors == {"ExecError", "ChangeError", "APIError", "PathError"}

\* C8: every error that aborts a container-ready event is the failure of a command run
\* against the container (read widely: of any operation on the container), every
\* error of the URL action is a name-resolution failure, and no other kind arises.
C8_OnlyTwoErrorKinds ==
    err # NoErr => err.kind \in ContainerErrors

\* C9: the handler sets the status to Active only after the layer was added, replan
\* was called and every provisioning operation completed in the same event; an event
\* in which one of them fails never sets Active and undoes nothing of what the
\* completed steps left in the container.
C9_StatusOnlyAfterAll ==
    /\ [](Issued("set_status") =>
            /\ Len(ops) = Len(FullOps)
            /\ \A i \in 1..Len(ops) : ops[i] = [op |-> FullOps[i], ok |-> TRUE])
    /\ [](err # NoErr => ~Issued("set_status"))
    /\ [][err' # NoErr =>
            /\ status' = status
            /\ debconf' = debconf \/ (err = NoErr /\ err'.op = "exec_debconf")
            /\ php' = php
            /\ ldif' = ldif
            /\ err # NoErr => ops' = ops]_vars

\* the restart failed: the rewritten web configuration and the seeded directory file
\* stay, and the status was not set
C9_Witness ==
    /\ err = [op |-> "restart", kind |-> "ChangeError"]
    /\ php # InitialPhp
    /\ ldif # None
    /\ status = "unknown"

\* C10: with the configuration unchanged, a second setup_php leaves config.php as the
\* first one left it.
C10_RewriteIdempotent ==
    events = 2 => php = ret[1]

====
